---- MODULE Spec2Model ----
(***************************************************************************)
(* Fuel moisture calculator: EMC estimator, time-lag stepper and the       *)
(* multi-period forecast driver.                                           *)
(*                                                                         *)
(* The repository carries several versions of the same functions.  The     *)
(* ones modelled here are                                                  *)
(*   "main"   src/fuel-moisture-calculator.js:57-186                       *)
(*   "nelson" src/fuel-moisture-calculator.js:270-299  (computeEMC only)   *)
(*   "umd"    src/unnamed/part_004:53-162   (version 1.0.0, UMD factory)   *)
(*   "v110"   src/unnamed/part_004:357-518  (version 1.1.0)                *)
(*                                                                         *)
(* Numbers.  A JavaScript value is a record [t, v]: t = "fin" for a finite *)
(* number whose value is v, and "NaN", "Infinity", "-Infinity",            *)
(* "undefined", "null" otherwise (v = 0).  A thrown TypeError is the value *)
(* with t = "TypeError".  Finite values are fixed-point integers:          *)
(*   temperature  whole degrees Fahrenheit                                 *)
(*   humidity     whole percent                                            *)
(*   hours, time-lag, wind   whole hours / mph                             *)
(*   moisture and EMC        hundredths of a percent (9.5% is 950)         *)
(* The decimal arithmetic below is exact; the inputs the specifications    *)
(* draw are values on which it agrees with the IEEE double evaluation of   *)
(* the source (no decimal tie falls on a rounding boundary).               *)
(***************************************************************************)
EXTENDS Integers, Sequences, FiniteSets, TLC

VARIABLES
    impl,                 \* which version of the library is loaded
    args,                 \* runModel's arguments [initial1hr, initial10hr, forecastEntries];
                          \* predictDryingTrend's [params, options]
    pc,                   \* position in runModel: "call", "loop", "returned", "thrown";
                          \* in predictDryingTrend: "call", "historical", "forecast",
                          \* "returned", "thrown"
    index,                \* forEach index of the next entry (1-based)
    current1hr,           \* carried 1-hr moisture
    current10hr,          \* carried 10-hr moisture
    dailyResults,         \* per-period records pushed so far
    firstCritical1HrDay,  \* label latched by the loop, Null until then
    firstCritical10HrDay, \* the same for the 10-hr class (version 1.1.0 only)
    result,               \* value returned by runModel or predictDryingTrend, or TypeError
    moisture,             \* predictDryingTrend: the carried moisture
    historical,           \* predictDryingTrend: the historical series it folds over
    predicted,            \* predictDryingTrend: the predicted series it folds over
    historicalResults,    \* predictDryingTrend: entries pushed by the first loop
    forecastResults,      \* predictDryingTrend: entries pushed by the second loop
    criticalTime,         \* predictDryingTrend: label latched by the second loop
    held,                 \* arguments a caller of a pure function keeps fixed between calls
    cur,                  \* last call of a pure function: [fn, args, ret]
    prev                  \* the call before it

vars == <<impl, args, pc, index, current1hr, current10hr, dailyResults,
          firstCritical1HrDay, firstCritical10HrDay, result, moisture, historical,
          predicted, historicalResults, forecastResults, criticalTime, held, cur, prev>>

---------------------------------------------------------------------------
(* JavaScript values *)

Fin(n) == [t |-> "fin", v |-> n]
NaN == [t |-> "NaN", v |-> 0]
PosInf == [t |-> "Infinity", v |-> 0]
NegInf == [t |-> "-Infinity", v |-> 0]
Undef == [t |-> "undefined", v |-> 0]
Null == [t |-> "null", v |-> 0]
TypeError == [t |-> "TypeError", v |-> 0]
Str(s) == [t |-> "string", v |-> 0, s |-> s]

\* Number(x) for the values of the model: undefined converts to NaN, null to 0
Number(x) ==
    CASE x.t = "undefined" -> NaN
      [] x.t = "null" -> Fin(0)
      [] OTHER -> x

\* the global isFinite applied to a number
isFinite(x) == x.t = "fin"

\* x || d : d replaces every falsy x (undefined, null, NaN, 0, '')
OrDefault(x, d) ==
    IF \/ x.t \in {"undefined", "null", "NaN"}
       \/ (x.t = "fin" /\ x.v = 0)
       \/ (x.t = "string" /\ x.s = "")
    THEN d ELSE x

Abs(n) == IF n < 0 THEN -n ELSE n
Min2(a, b) == IF a < b THEN a ELSE b
Max2(a, b) == IF a > b THEN a ELSE b

\* n / d to the nearest integer, ties away from zero: Number.prototype.toFixed
\* (d is even in every use)
RoundHalfAway(n, d) == IF n < 0 THEN -((Abs(n) + d \div 2) \div d) ELSE (n + d \div 2) \div d

\* n / d to the nearest integer, ties toward +Infinity: Math.round
RoundHalfUp(n, d) == (n + d \div 2) \div d

\* Math.max(0, Math.min(100, rh)) on any number: NaN propagates
ClampRH(rh) ==
    CASE rh.t = "fin" -> Fin(Max2(0, Min2(100, rh.v)))
      [] rh.t = "Infinity" -> Fin(100)
      [] rh.t = "-Infinity" -> Fin(0)
      [] OTHER -> NaN

---------------------------------------------------------------------------
(* Math.exp and Math.pow, tabulated for the arguments the model uses *)

ExpScale == 10 ^ 5

\* Math.exp(-h / tl) is Infinity: of the arguments the model uses, for
\* h = -10^6 with any tl <= 1000
MathExpIsInfinity(h, tl) == h <= -1000000

\* Math.exp(-h / tl) * 10^5, h >= -1 hours, tl > 0
MathExpNeg(h, tl) ==
    IF h = 0 THEN ExpScale
    ELSE CASE h = -1 /\ tl = 1 -> 271828
           [] h = -1 /\ tl = 10 -> 110517
           [] h = -1 /\ tl = 100 -> 101005
           [] h = -1 /\ tl = 1000 -> 100100
           [] h = 1 /\ tl = 1 -> 36788
           [] h = 1 /\ tl = 8 -> 88250
           [] h = 1 /\ tl = 9 -> 89484
           [] h = 1 /\ tl = 10 -> 90484
           [] h = 1 /\ tl = 100 -> 99005
           [] h = 1 /\ tl = 1000 -> 99900
           [] h = 12 /\ tl = 1 -> 1
           [] h = 12 /\ tl = 10 -> 30119
           [] h = 12 /\ tl = 100 -> 88692
           [] h = 12 /\ tl = 1000 -> 98807
           [] h = 24 /\ tl = 1 -> 0
           [] h = 24 /\ tl = 8 -> 4979
           [] h = 24 /\ tl = 9 -> 6948
           [] h = 24 /\ tl = 10 -> 9072
           [] h = 24 /\ tl = 100 -> 78663
           [] h = 24 /\ tl = 1000 -> 97629

\* Math.pow(RH, 0.679) * 10^4
PowRH(RH) ==
    CASE RH = 0 -> 0
      [] RH = 5 -> 29826
      [] RH = 9 -> 44456
      [] RH = 10 -> 47753
      [] RH = 15 -> 62888
      [] RH = 28 -> 96077
      [] RH = 50 -> 142430
      [] RH = 51 -> 144358
      [] RH = 80 -> 195974
      [] RH = 100 -> 228034

\* Math.exp((RH - 100) / 10) * 10^7
ExpRHHigh(RH) ==
    CASE RH = 0 -> 454
      [] RH = 5 -> 749
      [] RH = 9 -> 1117
      [] RH = 10 -> 1234
      [] RH = 15 -> 2035
      [] RH = 28 -> 7466
      [] RH = 50 -> 67379
      [] RH = 51 -> 74466
      [] RH = 80 -> 1353353
      [] RH = 100 -> 10000000

\* Math.exp(-0.115 * RH) * 10^4
ExpRHLow(RH) ==
    CASE RH = 0 -> 10000
      [] RH = 5 -> 5627
      [] RH = 9 -> 3552
      [] RH = 10 -> 3166
      [] RH = 15 -> 1782
      [] RH = 28 -> 400
      [] RH = 50 -> 32
      [] RH = 51 -> 28
      [] RH = 80 -> 1
      [] RH = 100 -> 0

---------------------------------------------------------------------------
(* EMC estimator *)

\* main version: three humidity bands, result floored at 0 and given one decimal
computeEMC(tempF, rh) ==
    LET T == Number(tempF)
        RH_raw == Number(rh)
    IN  IF ~isFinite(T) \/ ~isFinite(RH_raw) THEN TypeError
        ELSE LET RH == Max2(0, Min2(100, RH_raw.v))
                 d == 100 - RH
                 \* emc * 10^6
                 emc == IF RH < 10 THEN 30000 + 262600 * RH - 1040 * RH * T.v
                        ELSE IF RH <= 50 THEN 2220000 + 160000 * RH - 10000 * T.v
                        ELSE 21060000 - 494400 * d + 5565 * d * d - 350 * d * T.v
             IN  Fin(Max2(0, 10 * RoundHalfAway(emc, 10 ^ 5)))

\* Nelson version: typeof check only, no clamping of rh, bounds [0, 30], two
\* decimals (defined here for finite numbers and for undefined / null)
computeEMC_Nelson(temp, rh) ==
    CASE temp.t \in {"undefined", "null"} \/ rh.t \in {"undefined", "null"} -> TypeError
      [] isFinite(temp) /\ isFinite(rh) ->
            LET \* emc * 10^6
                emc == IF rh.v < 10 THEN 32290 + 281073 * rh.v - 578 * rh.v * temp.v
                       ELSE IF rh.v < 50 THEN 2227490 + 160107 * rh.v - 14784 * temp.v
                       ELSE 21060600 + 5565 * rh.v * rh.v - 350 * rh.v * temp.v - 483199 * rh.v
            IN  Fin(Max2(0, Min2(3000, RoundHalfAway(emc, 10 ^ 4))))

\* UMD version: rh is clamped before the finiteness check, floor 0.1
computeEMC_UMD(tempF, rh) ==
    LET T == Number(tempF)
        RH == ClampRH(Number(rh))
    IN  IF ~isFinite(T) \/ ~isFinite(RH) THEN TypeError
        ELSE LET \* emc * 10^7
                 emc == 942 * PowRH(RH.v) + 11 * ExpRHHigh(RH.v)
                          + 18 * (211 - 10 * T.v) * (10000 - ExpRHLow(RH.v))
             IN  Fin(Max2(10, 10 * RoundHalfAway(emc, 10 ^ 6)))

\* version 1.1.0: finiteness check, then clamping; one linear formula, Math.round
computeEMC_v110(tempF, rh) ==
    LET T == Number(tempF)
        RH_raw == Number(rh)
    IN  IF ~isFinite(T) \/ ~isFinite(RH_raw) THEN TypeError
        ELSE LET RH == Max2(0, Min2(100, RH_raw.v))
                 \* emc * 10^6
                 emc == 32290 + 281073 * RH - 578 * RH * T.v
             IN  Fin(Max2(0, 10 * RoundHalfUp(emc, 10 ^ 5)))

---------------------------------------------------------------------------
(* Time-lag stepper *)

\* (EMC + (M0 - EMC) * exp(-t / tau)) * 10^5, in hundredths of a percent
Decay(M0, EMC, t, tau) == EMC * ExpScale + (M0 - EMC) * MathExpNeg(t, tau)

\* EMC + (M0 - EMC) * Infinity: 0 * Infinity is NaN, and toFixed / parseFloat /
\* Math.round keep NaN and the infinities
DecayOverflow(M0, EMC) ==
    IF M0 = EMC THEN NaN ELSE IF M0 > EMC THEN PosInf ELSE NegInf

\* stepMoisture with the decay factor complemented: EMC + (M0 - EMC) * (1 - exp(-t / tau))
stepMoisture_Complement(initial, emc, hours, timeLag) ==
    LET M0 == Number(initial)
        EMC == Number(emc)
        t == Number(hours)
        tau == Number(timeLag)
    IN  IF ~isFinite(M0) \/ ~isFinite(EMC) \/ ~isFinite(t) \/ ~isFinite(tau) THEN TypeError
        ELSE IF tau.v <= 0 THEN TypeError
        ELSE IF MathExpIsInfinity(t.v, tau.v) THEN DecayOverflow(EMC.v, M0.v)
        ELSE Fin(10 * RoundHalfAway(EMC.v * ExpScale
                                      + (M0.v - EMC.v) * (ExpScale - MathExpNeg(t.v, tau.v)),
                                    10 * ExpScale))

\* stepMoisture with the difference dropped: EMC + M0 * exp(-t / tau)
stepMoisture_NoDifference(initial, emc, hours, timeLag) ==
    LET M0 == Number(initial)
        EMC == Number(emc)
        t == Number(hours)
        tau == Number(timeLag)
    IN  IF ~isFinite(M0) \/ ~isFinite(EMC) \/ ~isFinite(t) \/ ~isFinite(tau) THEN TypeError
        ELSE IF tau.v <= 0 THEN TypeError
        ELSE IF MathExpIsInfinity(t.v, tau.v) THEN DecayOverflow(M0.v, 0)
        ELSE Fin(10 * RoundHalfAway(EMC.v * ExpScale + M0.v * MathExpNeg(t.v, tau.v),
                                    10 * ExpScale))

\* stepMoisture with the exponent -t * tau in place of -t / tau
stepMoisture_Product(initial, emc, hours, timeLag) ==
    LET M0 == Number(initial)
        EMC == Number(emc)
        t == Number(hours)
        tau == Number(timeLag)
    IN  IF ~isFinite(M0) \/ ~isFinite(EMC) \/ ~isFinite(t) \/ ~isFinite(tau) THEN TypeError
        ELSE IF tau.v <= 0 THEN TypeError
        ELSE IF MathExpIsInfinity(t.v, tau.v) THEN DecayOverflow(M0.v, EMC.v)
        ELSE LET p == t.v * tau.v
                 k == IF p \in {-1, 0, 1, 12, 24} THEN MathExpNeg(p, 1)
                      ELSE IF p = 10 THEN 5 ELSE 0
             IN  Fin(10 * RoundHalfAway(EMC.v * ExpScale + (M0.v - EMC.v) * k, 10 * ExpScale))

\* stepMoisture with the sign of the decaying difference reversed:
\* EMC - (M0 - EMC) * exp(-t / tau)
stepMoisture_Overshoot(initial, emc, hours, timeLag) ==
    LET M0 == Number(initial)
        EMC == Number(emc)
        t == Number(hours)
        tau == Number(timeLag)
    IN  IF ~isFinite(M0) \/ ~isFinite(EMC) \/ ~isFinite(t) \/ ~isFinite(tau) THEN TypeError
        ELSE IF tau.v <= 0 THEN TypeError
        ELSE IF MathExpIsInfinity(t.v, tau.v) THEN DecayOverflow(EMC.v, M0.v)
        ELSE Fin(10 * RoundHalfAway(EMC.v * ExpScale - (M0.v - EMC.v) * MathExpNeg(t.v, tau.v),
                                    10 * ExpScale))

\* main version
stepMoisture(initial, emc, hours, timeLag) ==
    LET M0 == Number(initial)
        EMC == Number(emc)
        t == Number(hours)
        tau == Number(timeLag)
    IN  IF ~isFinite(M0) \/ ~isFinite(EMC) \/ ~isFinite(t) \/ ~isFinite(tau) THEN TypeError
        ELSE IF tau.v <= 0 THEN TypeError
        ELSE IF MathExpIsInfinity(t.v, tau.v) THEN DecayOverflow(M0.v, EMC.v)
        ELSE Fin(10 * RoundHalfAway(Decay(M0.v, EMC.v, t.v, tau.v), 10 * ExpScale))

\* UMD version: the time-lag is replaced by Math.max(0.0001, tl); with whole
\* hours and tl <= 0, exp(-h / 0.0001) underflows to 0 for h >= 1 and is
\* Infinity for h <= -1
stepMoisture_UMD(initial, emc, hours, timeLag) ==
    LET m0 == Number(initial)
        e == Number(emc)
        h == Number(hours)
        tl == Number(timeLag)
    IN  IF ~isFinite(m0) \/ ~isFinite(e) \/ ~isFinite(h) \/ ~isFinite(tl) THEN TypeError
        ELSE IF h.v < 0 /\ (tl.v < 1 \/ MathExpIsInfinity(h.v, tl.v)) THEN DecayOverflow(m0.v, e.v)
        ELSE LET k == IF tl.v >= 1 THEN MathExpNeg(h.v, tl.v)
                      ELSE IF h.v = 0 THEN ExpScale ELSE 0
             IN  Fin(10 * RoundHalfAway(e.v * ExpScale + (m0.v - e.v) * k, 10 * ExpScale))

\* version 1.1.0: Math.round(moisture * 10) / 10
stepMoisture_v110(initial, emc, hours, timeLag) ==
    LET M0 == Number(initial)
        Me == Number(emc)
        t == Number(hours)
        tau == Number(timeLag)
    IN  IF ~isFinite(M0) \/ ~isFinite(Me) \/ ~isFinite(t) \/ ~isFinite(tau) THEN TypeError
        ELSE IF tau.v <= 0 THEN TypeError
        ELSE IF MathExpIsInfinity(t.v, tau.v) THEN DecayOverflow(M0.v, Me.v)
        ELSE Fin(10 * RoundHalfUp(Decay(M0.v, Me.v, t.v, tau.v), 10 * ExpScale))

---------------------------------------------------------------------------
(* Calls of the pure functions *)

NoCall == [fn |-> "none", args |-> <<>>, ret |-> Undef]

\* the module a caller has loaded decides which computeEMC it gets
computeEMCOf(i, tempF, rh) ==
    CASE i = "main" -> computeEMC(tempF, rh)
      [] i = "nelson" -> computeEMC_Nelson(tempF, rh)
      [] i = "umd" -> computeEMC_UMD(tempF, rh)
      [] i = "v110" -> computeEMC_v110(tempF, rh)

stepMoistureOf(i, initial, emc, hours, timeLag) ==
    CASE i = "main" -> stepMoisture(initial, emc, hours, timeLag)
      [] i = "umd" -> stepMoisture_UMD(initial, emc, hours, timeLag)
      [] i = "v110" -> stepMoisture_v110(initial, emc, hours, timeLag)

EMCImpls == {"main", "nelson", "umd", "v110"}
StepImpls == {"main", "umd", "v110"}

\* temperatures and humidities drawn for computeEMC
Temps == {Fin(-50), Fin(55), Fin(75), Fin(95), Fin(150), NaN, PosInf}
Humidities == {Fin(-50), Fin(0), Fin(5), Fin(9), Fin(10), Fin(15), Fin(28), Fin(50),
               Fin(51), Fin(80), Fin(100), Fin(500), NaN, PosInf, NegInf}

\* arguments drawn for stepMoisture
StepInitials == {Fin(500), Fin(804), Fin(1000), Fin(1200), Fin(2000), NaN}
StepEMCs == {Fin(500), Fin(600), Fin(800), Fin(804), Fin(1500)}
StepHours == {Fin(-1000000), Fin(-1), Fin(0), Fin(1), Fin(12), Fin(24)}
StepTimeLags == {Fin(-5), Fin(0), Fin(1), Fin(10), Fin(100), Fin(1000)}

trendVars == <<moisture, historical, predicted, historicalResults, forecastResults,
               criticalTime>>

\* predictDryingTrend not running
TrendIdle ==
    /\ moisture = Undef
    /\ historical = <<>>
    /\ predicted = <<>>
    /\ historicalResults = <<>>
    /\ forecastResults = <<>>
    /\ criticalTime = Null

RunIdle ==
    /\ TrendIdle
    /\ args = [initial1hr |-> Undef, initial10hr |-> Undef, forecastEntries |-> <<>>]
    /\ pc = "idle"
    /\ index = 1
    /\ current1hr = Undef
    /\ current10hr = Undef
    /\ dailyResults = <<>>
    /\ firstCritical1HrDay = Null
    /\ firstCritical10HrDay = Null
    /\ result = Undef

runVars == <<args, pc, index, current1hr, current10hr, dailyResults,
             firstCritical1HrDay, firstCritical10HrDay, result>>

InitEMC ==
    /\ impl \in EMCImpls
    /\ held \in {<<tempF>> : tempF \in Temps}
    /\ impl = "nelson" => isFinite(held[1])
    /\ cur = NoCall
    /\ prev = NoCall
    /\ RunIdle

\* computeEMC(tempF, rh) for the held temperature and a drawn humidity
CallComputeEMC ==
    \E rh \in Humidities :
        /\ impl = "nelson" => isFinite(rh)
        /\ prev' = cur
        /\ cur' = [fn |-> "computeEMC", args |-> <<held[1], rh>>,
                   ret |-> computeEMCOf(impl, held[1], rh)]
        /\ UNCHANGED <<impl, held, runVars, trendVars>>

SpecEMC == InitEMC /\ [][CallComputeEMC]_vars

InitStep ==
    /\ impl \in StepImpls
    /\ held \in {<<initial, emc>> : initial \in StepInitials, emc \in StepEMCs}
    /\ cur = NoCall
    /\ prev = NoCall
    /\ RunIdle

\* stepMoisture(initial, emc, hours, timeLag) for the held initial and emc
CallStepMoisture ==
    \E hours \in StepHours, timeLag \in StepTimeLags :
        /\ prev' = cur
        /\ cur' = [fn |-> "stepMoisture", args |-> <<held[1], held[2], hours, timeLag>>,
                   ret |-> stepMoistureOf(impl, held[1], held[2], hours, timeLag)]
        /\ UNCHANGED <<impl, held, runVars, trendVars>>

SpecStep == InitStep /\ [][CallStepMoisture]_vars

---------------------------------------------------------------------------
(* Multi-period forecast driver *)

MaxPeriods == 3

RunImpls == {"main", "umd", "v110"}

ForecastEntry(temp, rh, hours, wind, label) ==
    [temp |-> temp, rh |-> rh, hours |-> hours, wind |-> wind, label |-> label]

\* forecast periods a caller supplies; labels are absent or non-empty strings
ForecastPeriods ==
    { ForecastEntry(Fin(75), Fin(50), Fin(12), Undef, Undef),
      ForecastEntry(Fin(95), Fin(15), Fin(12), Fin(10), Str("Mon")),
      ForecastEntry(Fin(55), Fin(80), Fin(12), Undef, Str("Tue")),
      ForecastEntry(Fin(75), Fin(28), Fin(12), Undef, Undef),
      ForecastEntry(Fin(75), Fin(50), Fin(0), Fin(0), Undef),
      ForecastEntry(Fin(75), Fin(50), Undef, Undef, Undef),
      ForecastEntry(Fin(95), Fin(15), Fin(1), Undef, Undef),
      ForecastEntry(NaN, Fin(50), Fin(12), Undef, Undef) }

\* <<initial1hr, initial10hr>>
InitialMoistures ==
    { <<Fin(1000), Fin(1200)>>, <<Fin(600), Fin(1200)>>, <<Fin(604), Fin(800)>>, <<NaN, Fin(1200)>> }

RECURSIVE SeqsUpTo(_, _)
SeqsUpTo(S, n) ==
    IF n = 0 THEN {<<>>}
    ELSE LET shorter == SeqsUpTo(S, n - 1)
         IN  shorter \cup {Append(q, e) : q \in shorter, e \in S}

\* `Day ${index + 1}` (index is 1-based here)
DayLabel(i) == Str("Day " \o ToString(i))

\* one record of dailyResults; a field a version does not set is undefined
DailyResult(day, temp, rh, emc, hours, m1, m10, wind) ==
    [day |-> day, temp |-> temp, rh |-> rh, emc |-> emc, hours |-> hours,
     moisture1Hr |-> m1, moisture10Hr |-> m10, wind |-> wind]

\* outcome of one forEach callback: thrown, or the new loop state and record
Outcome(thrown, c1, c10, fc1, fc10, rec) ==
    [thrown |-> thrown, c1 |-> c1, c10 |-> c10, fc1 |-> fc1, fc10 |-> fc10, rec |-> rec]

Thrown == Outcome(TRUE, Undef, Undef, Null, Null, Undef)

\* runModelEntry_main with the 10-hr class stepped with the 1-hr time-lag
runModelEntry_main_Lag1(entry, i, c1, c10, fc1) ==
    LET temp == Number(entry.temp)
        rh == Number(entry.rh)
        hours == Number(entry.hours)
    IN  IF ~isFinite(temp) \/ ~isFinite(rh) \/ ~isFinite(hours) THEN Thrown
        ELSE LET emc == computeEMC(temp, rh)
                 n1 == stepMoisture(c1, emc, hours, Fin(1))
                 n10 == stepMoisture(c10, emc, hours, Fin(1))
                 day == OrDefault(entry.label, DayLabel(i))
             IN  Outcome(FALSE, n1, n10,
                         IF fc1 = Null /\ n1.v <= 600 THEN day ELSE fc1,
                         Null,
                         DailyResult(day, temp, rh, emc, Undef, n1, n10,
                                     OrDefault(entry.wind, Null)))

\* runModelEntry_main with the critical test current1hr < 6
runModelEntry_main_Strict(entry, i, c1, c10, fc1) ==
    LET temp == Number(entry.temp)
        rh == Number(entry.rh)
        hours == Number(entry.hours)
    IN  IF ~isFinite(temp) \/ ~isFinite(rh) \/ ~isFinite(hours) THEN Thrown
        ELSE LET emc == computeEMC(temp, rh)
                 n1 == stepMoisture(c1, emc, hours, Fin(1))
                 n10 == stepMoisture(c10, emc, hours, Fin(10))
                 day == OrDefault(entry.label, DayLabel(i))
             IN  Outcome(FALSE, n1, n10,
                         IF fc1 = Null /\ n1.v < 600 THEN day ELSE fc1,
                         Null,
                         DailyResult(day, temp, rh, emc, Undef, n1, n10,
                                     OrDefault(entry.wind, Null)))

\* runModelEntry_main with the time-lags of the two classes exchanged
runModelEntry_main_Swapped(entry, i, c1, c10, fc1) ==
    LET temp == Number(entry.temp)
        rh == Number(entry.rh)
        hours == Number(entry.hours)
    IN  IF ~isFinite(temp) \/ ~isFinite(rh) \/ ~isFinite(hours) THEN Thrown
        ELSE LET emc == computeEMC(temp, rh)
                 n1 == stepMoisture(c1, emc, hours, Fin(10))
                 n10 == stepMoisture(c10, emc, hours, Fin(1))
                 day == OrDefault(entry.label, DayLabel(i))
             IN  Outcome(FALSE, n1, n10,
                         IF fc1 = Null /\ n1.v <= 600 THEN day ELSE fc1,
                         Null,
                         DailyResult(day, temp, rh, emc, Undef, n1, n10,
                                     OrDefault(entry.wind, Null)))

\* runModelEntry_main recording every period at or below 6, not only the first
runModelEntry_main_LastCrossing(entry, i, c1, c10, fc1) ==
    LET temp == Number(entry.temp)
        rh == Number(entry.rh)
        hours == Number(entry.hours)
    IN  IF ~isFinite(temp) \/ ~isFinite(rh) \/ ~isFinite(hours) THEN Thrown
        ELSE LET emc == computeEMC(temp, rh)
                 n1 == stepMoisture(c1, emc, hours, Fin(1))
                 n10 == stepMoisture(c10, emc, hours, Fin(10))
                 day == OrDefault(entry.label, DayLabel(i))
             IN  Outcome(FALSE, n1, n10,
                         IF n1.v <= 600 THEN day ELSE fc1,
                         Null,
                         DailyResult(day, temp, rh, emc, Undef, n1, n10,
                                     OrDefault(entry.wind, Null)))

\* main version, body of forecastEntries.forEach
runModelEntry_main(entry, i, c1, c10, fc1) ==
    LET temp == Number(entry.temp)
        rh == Number(entry.rh)
        hours == Number(entry.hours)
    IN  IF ~isFinite(temp) \/ ~isFinite(rh) \/ ~isFinite(hours) THEN Thrown
        ELSE LET emc == computeEMC(temp, rh)
                 n1 == stepMoisture(c1, emc, hours, Fin(1))
                 n10 == stepMoisture(c10, emc, hours, Fin(10))
                 day == OrDefault(entry.label, DayLabel(i))
             IN  Outcome(FALSE, n1, n10,
                         IF fc1 = Null /\ n1.v <= 600 THEN day ELSE fc1,
                         Null,
                         DailyResult(day, temp, rh, emc, Undef, n1, n10,
                                     OrDefault(entry.wind, Null)))

\* version 1.1.0, body of forecastEntries.forEach
runModelEntry_v110(entry, i, c1, c10, fc1, fc10) ==
    LET temp == Number(entry.temp)
        rh == Number(entry.rh)
        hours == Number(entry.hours)
    IN  IF ~isFinite(temp) \/ ~isFinite(rh) \/ ~isFinite(hours) THEN Thrown
        ELSE LET emc == computeEMC_v110(temp, rh)
                 n1 == stepMoisture_v110(c1, emc, hours, Fin(1))
                 n10 == stepMoisture_v110(c10, emc, hours, Fin(10))
                 dayLabel == OrDefault(entry.label, DayLabel(i))
             IN  Outcome(FALSE, n1, n10,
                         IF fc1 = Null /\ n1.v <= 600 THEN dayLabel ELSE fc1,
                         IF fc10 = Null /\ n10.v <= 600 THEN dayLabel ELSE fc10,
                         DailyResult(dayLabel, temp, rh, emc, Undef, n1, n10, entry.wind))

\* UMD version, body of forecastEntries.forEach
runModelEntry_UMD(day, i, prev1, prev10) ==
    LET emc == computeEMC_UMD(day.temp, day.rh)
        hours == OrDefault(day.hours, Fin(12))
        m1 == stepMoisture_UMD(prev1, emc, hours, Fin(1))
        m10 == stepMoisture_UMD(prev10, emc, hours, Fin(10))
    IN  IF emc = TypeError \/ m1 = TypeError \/ m10 = TypeError THEN Thrown
        ELSE Outcome(FALSE, m1, m10, Null, Null,
                     DailyResult(OrDefault(day.label, DayLabel(i)), day.temp, day.rh, Undef,
                                 hours, m1, m10, OrDefault(day.wind, Fin(0))))

\* results.dailyResults.findIndex(r => r.moisture1Hr <= 6), 0 for -1
FindCritIndex(results) ==
    LET hits == {k \in 1..Len(results) : results[k].moisture1Hr.v <= 600}
    IN  IF hits = {} THEN 0 ELSE CHOOSE k \in hits : \A j \in hits : k <= j

Summary(fc1, fc10, f1, f10) ==
    [firstCritical1HrDay |-> fc1, firstCritical10HrDay |-> fc10, final1Hr |-> f1, final10Hr |-> f10]

InitRun ==
    /\ impl \in RunImpls
    /\ args \in [initial1hr : {m[1] : m \in InitialMoistures},
                  initial10hr : {m[2] : m \in InitialMoistures},
                  forecastEntries : SeqsUpTo(ForecastPeriods, MaxPeriods)]
    /\ <<args.initial1hr, args.initial10hr>> \in InitialMoistures
    /\ pc = "call"
    /\ index = 1
    /\ current1hr = Undef
    /\ current10hr = Undef
    /\ dailyResults = <<>>
    /\ firstCritical1HrDay = Null
    /\ firstCritical10HrDay = Null
    /\ result = Undef
    /\ TrendIdle
    /\ held = <<>>
    /\ cur = NoCall
    /\ prev = NoCall

\* runModel up to the loop: argument checks and the loop's initial state
runModelEnter ==
    /\ pc = "call"
    /\ LET M1 == Number(args.initial1hr)
           M10 == Number(args.initial10hr)
           rejects == /\ impl \in {"main", "v110"}
                      /\ \/ ~isFinite(M1) \/ ~isFinite(M10)
                         \/ Len(args.forecastEntries) = 0
       IN  /\ pc' = IF rejects THEN "thrown" ELSE "loop"
           /\ result' = IF rejects THEN TypeError ELSE result
           /\ current1hr' = IF rejects THEN current1hr ELSE M1
           /\ current10hr' = IF rejects THEN current10hr ELSE M10
    /\ UNCHANGED <<impl, args, index, dailyResults, firstCritical1HrDay,
                   firstCritical10HrDay, trendVars, held, cur, prev>>

\* one callback of forecastEntries.forEach
runModelEntry ==
    /\ pc = "loop"
    /\ index <= Len(args.forecastEntries)
    /\ LET entry == args.forecastEntries[index]
           o == CASE impl = "main" ->
                       runModelEntry_main(entry, index, current1hr, current10hr, firstCritical1HrDay)
                  [] impl = "v110" ->
                       runModelEntry_v110(entry, index, current1hr, current10hr,
                                          firstCritical1HrDay, firstCritical10HrDay)
                  [] impl = "umd" ->
                       runModelEntry_UMD(entry, index, current1hr, current10hr)
       IN  IF o.thrown
           THEN /\ pc' = "thrown"
                /\ result' = TypeError
                /\ UNCHANGED <<index, current1hr, current10hr, dailyResults,
                               firstCritical1HrDay, firstCritical10HrDay>>
           ELSE /\ current1hr' = o.c1
                /\ current10hr' = o.c10
                /\ firstCritical1HrDay' = o.fc1
                /\ firstCritical10HrDay' = o.fc10
                /\ dailyResults' = Append(dailyResults, o.rec)
                /\ index' = index + 1
                /\ UNCHANGED <<pc, result>>
    /\ UNCHANGED <<impl, args, trendVars, held, cur, prev>>

\* after the loop: the summary and the returned object
runModelReturn ==
    /\ pc = "loop"
    /\ index > Len(args.forecastEntries)
    /\ LET critIndex == FindCritIndex(dailyResults)
           summary == CASE impl = "main" ->
                             Summary(firstCritical1HrDay, Undef, current1hr, current10hr)
                        [] impl = "v110" ->
                             Summary(firstCritical1HrDay, firstCritical10HrDay,
                                     current1hr, current10hr)
                        [] impl = "umd" ->
                             Summary(IF critIndex >= 1 THEN dailyResults[critIndex].day ELSE Null,
                                     Undef, Undef, Undef)
       IN  result' = [initial1hr |-> Number(args.initial1hr),
                      initial10hr |-> Number(args.initial10hr),
                      dailyResults |-> dailyResults,
                      summary |-> summary]
    /\ pc' = "returned"
    /\ UNCHANGED <<impl, args, index, current1hr, current10hr, dailyResults,
                   firstCritical1HrDay, firstCritical10HrDay, trendVars, held, cur, prev>>

Next == runModelEnter \/ runModelEntry \/ runModelReturn

Spec == InitRun /\ [][Next]_vars

---------------------------------------------------------------------------
(* Properties of runModel *)

Terminated == pc \in {"returned", "thrown"}

NumPeriods == Len(args.forecastEntries)

FiniteInitials == isFinite(Number(args.initial1hr)) /\ isFinite(Number(args.initial10hr))

FinitePeriod(e) ==
    isFinite(Number(e.temp)) /\ isFinite(Number(e.rh)) /\ isFinite(Number(e.hours))

\* moisture entering period k for the class whose results are in field f
Entering1Hr(k) == IF k = 1 THEN Number(args.initial1hr) ELSE result.dailyResults[k - 1].moisture1Hr
Entering10Hr(k) == IF k = 1 THEN Number(args.initial10hr) ELSE result.dailyResults[k - 1].moisture10Hr

\* the label the claims expect for period k
ExpectedLabel(k) ==
    IF args.forecastEntries[k].label = Undef THEN DayLabel(k) ELSE args.forecastEntries[k].label

C3_EmptyForecastThrows ==
    (NumPeriods = 0 /\ Terminated) => (pc = "thrown" /\ result = TypeError)

\* C4: a period supplied with hours 0 (wind 0) is reported with hours 0
\* (wind 0), and a period with hours 0 leaves both moistures as they entered it.
C4_ZeroHoursAndWindPreserved ==
    pc = "returned" =>
        \A k \in 1..Len(result.dailyResults) :
            LET e == args.forecastEntries[k]
                r == result.dailyResults[k]
            IN  /\ e.hours = Fin(0) =>
                      /\ r.hours = Fin(0)
                      /\ r.moisture1Hr = Entering1Hr(k)
                      /\ r.moisture10Hr = Entering10Hr(k)
                /\ e.wind = Fin(0) => r.wind = Fin(0)

\* C5: a period with finite temp and rh and no hours field does not make
\* runModel fail; it is processed as a 12-hour period and reported with hours 12.
C5_AbsentHoursDefaultTo12 ==
    ( /\ Terminated
      /\ FiniteInitials
      /\ NumPeriods > 0
      /\ \A k \in 1..NumPeriods :
            LET e == args.forecastEntries[k]
            IN  isFinite(Number(e.temp)) /\ isFinite(Number(e.rh))
                  /\ (e.hours = Undef \/ isFinite(e.hours)) )
    => /\ pc = "returned"
       /\ \A k \in 1..NumPeriods :
             LET e == args.forecastEntries[k]
                 r == result.dailyResults[k]
                 emc == computeEMCOf(impl, e.temp, e.rh)
             IN  e.hours = Undef =>
                   /\ r.hours = Fin(12)
                   /\ r.moisture1Hr = stepMoistureOf(impl, Entering1Hr(k), emc, Fin(12), Fin(1))
                   /\ r.moisture10Hr = stepMoistureOf(impl, Entering10Hr(k), emc, Fin(12), Fin(10))

---------------------------------------------------------------------------
(* Properties of computeEMC *)

\* C6: for finite temperature and humidity computeEMC returns a value >= 0.1
\* and <= 30.
C6_EMCWithinFloorAndCap ==
    (cur.fn = "computeEMC" /\ isFinite(cur.args[1]) /\ isFinite(cur.args[2]))
    => (isFinite(cur.ret) /\ cur.ret.v >= 10 /\ cur.ret.v <= 3000)

\* C7: for a finite temperature, computeEMC of a humidity below 0 equals
\* computeEMC of 0 and computeEMC of a humidity above 100 equals computeEMC of
\* 100, and neither is rejected.
C7_HumidityClamped ==
    (prev.fn = "computeEMC" /\ cur.fn = "computeEMC" /\ isFinite(held[1]) /\ isFinite(prev.args[2]))
    => /\ (prev.args[2].v < 0 /\ cur.args[2] = Fin(0)) =>
              (isFinite(prev.ret) /\ prev.ret = cur.ret)
       /\ (prev.args[2].v > 100 /\ cur.args[2] = Fin(100)) =>
              (isFinite(prev.ret) /\ prev.ret = cur.ret)

\* C8: computeEMC raises an error whenever tempF or rh, as supplied, is NaN,
\* +Infinity or -Infinity.
C8_NonFiniteRejected ==
    (cur.fn = "computeEMC" /\ (~isFinite(cur.args[1]) \/ ~isFinite(cur.args[2])))
    => cur.ret = TypeError

\* C9: for a fixed finite temperature and humidities rh1 <= rh2 in [0, 100],
\* computeEMC(T, rh1) <= computeEMC(T, rh2).
C9_MonotoneInHumidity ==
    ( /\ prev.fn = "computeEMC" /\ cur.fn = "computeEMC"
      /\ isFinite(held[1]) /\ isFinite(prev.args[2]) /\ isFinite(cur.args[2])
      /\ 0 <= prev.args[2].v /\ prev.args[2].v <= cur.args[2].v /\ cur.args[2].v <= 100 )
    => (isFinite(prev.ret) /\ isFinite(cur.ret) /\ prev.ret.v <= cur.ret.v)

---------------------------------------------------------------------------
(* Properties of stepMoisture *)

\* C10: stepMoisture raises an error whenever timeLag is zero or negative and
\* all arguments are finite; it returns no moisture value for such a call.
C10_NonPositiveTimeLagRejected ==
    ( /\ cur.fn = "stepMoisture"
      /\ \A a \in 1..4 : isFinite(cur.args[a])
      /\ cur.args[4].v <= 0 )
    => cur.ret = TypeError

\* the moisture x to one decimal place, as toFixed(1) and Math.round(x * 10) / 10
\* give it for the values drawn (no tie among them)
OneDecimal(x) == Fin(10 * RoundHalfAway(x.v, 10))

\* a call of stepMoisture with finite arguments and a positive time-lag
ValidStepCall(c) ==
    /\ c.fn = "stepMoisture"
    /\ \A a \in 1..4 : isFinite(c.args[a])
    /\ c.args[4].v > 0

\* C11 as stated: for every finite x, finite e and timeLag > 0,
\* stepMoisture(x, e, 0, timeLag) returns exactly x.
C11_ZeroHoursReturnsInitialExactly ==
    (ValidStepCall(cur) /\ cur.args[3] = Fin(0)) => cur.ret = cur.args[1]

\* C11 amended: for moisture percentages x and e, x with at most one decimal
\* place, and timeLag > 0, stepMoisture(x, e, 0, timeLag) returns exactly x;
\* an x with more decimals comes back rounded to one decimal place (8.04
\* gives 8.0).
C11_ZeroHoursReturnsInitialRounded ==
    (ValidStepCall(cur) /\ cur.args[3] = Fin(0))
    => /\ cur.ret = OneDecimal(cur.args[1])
       /\ cur.args[1].v % 10 = 0 => cur.ret = cur.args[1]

\* zero hours with x = 12, e = 8 and time-lag 10: the result is 12, not the EMC
C11_Witness ==
    /\ impl = "main"
    /\ cur.fn = "stepMoisture"
    /\ cur.args = <<Fin(1200), Fin(800), Fin(0), Fin(10)>>
    /\ cur.ret = Fin(1200)

\* C12 as stated: for every finite x, finite hours h and timeLag > 0,
\* stepMoisture(x, x, h, timeLag) returns exactly x.
C12_EquilibriumIsFixedPointExactly ==
    (ValidStepCall(cur) /\ cur.args[1] = cur.args[2]) => cur.ret = cur.args[1]

\* C12 amended: for a moisture percentage x with at most one decimal place,
\* timeLag > 0 and every finite hours h for which exp(-h / timeLag) is finite
\* (every h >= 0 in particular), stepMoisture(x, x, h, timeLag) returns exactly
\* x; an x with more decimals comes back rounded to one decimal place.
C12_EquilibriumIsFixedPointRounded ==
    ( /\ ValidStepCall(cur) /\ cur.args[1] = cur.args[2]
      /\ ~MathExpIsInfinity(cur.args[3].v, cur.args[4].v) )
    => /\ cur.ret = OneDecimal(cur.args[1])
       /\ cur.args[1].v % 10 = 0 => cur.ret = cur.args[1]

\* 12 hours at equilibrium (x = e = 5) with time-lag 10
C12_Witness ==
    /\ impl = "main"
    /\ cur.fn = "stepMoisture"
    /\ cur.args = <<Fin(500), Fin(500), Fin(12), Fin(10)>>
    /\ cur.ret = Fin(500)

\* two recorded calls with the same x, e and hours, the earlier one with
\* time-lag a and the later one with time-lag b
LagPair(a, b) ==
    /\ ValidStepCall(prev) /\ ValidStepCall(cur)
    /\ prev.args[3] = cur.args[3]
    /\ prev.args[4] = Fin(a) /\ cur.args[4] = Fin(b)
    /\ cur.args[2].v < cur.args[1].v

\* C13 as stated: for every x, e < x and hours h that stepMoisture accepts,
\* stepMoisture(x, e, h, 1) < stepMoisture(x, e, h, 10) < stepMoisture(x, e, h, 100).
C13_StrictlyOrderedByTimeLag ==
    (LagPair(1, 10) \/ LagPair(10, 100))
    => (isFinite(prev.ret) /\ isFinite(cur.ret) /\ prev.ret.v < cur.ret.v)

\* C13 amended: for every x, e < x and hours h >= 0,
\* stepMoisture(x, e, h, 1) <= stepMoisture(x, e, h, 10) <= stepMoisture(x, e, h, 100),
\* and both inequalities are strict for x = 12, e = 6, h = 12.
C13_OrderedByTimeLag ==
    ((LagPair(1, 10) \/ LagPair(10, 100)) /\ cur.args[3].v >= 0)
    => /\ isFinite(prev.ret) /\ isFinite(cur.ret)
       /\ prev.ret.v <= cur.ret.v
       /\ (held = <<Fin(1200), Fin(600)>> /\ cur.args[3] = Fin(12)) => prev.ret.v < cur.ret.v

\* x = 12, e = 6, h = 12: 7.8 with time-lag 10 after 6.0 with time-lag 1
C13_Witness ==
    /\ impl = "main"
    /\ LagPair(1, 10)
    /\ held = <<Fin(1200), Fin(600)>>
    /\ cur.args[3] = Fin(12)
    /\ prev.ret = Fin(600)
    /\ cur.ret = Fin(780)

---------------------------------------------------------------------------
(* Gap interpolation of a weather series (version 1.1.0)                   *)
(*                                                                         *)
(* A series is [array, items]: array is Array.isArray of the argument and  *)
(* items its elements.  A sample is [temp, rh, wind, timestamp].  The temp *)
(* and rh values drawn are whole numbers that differ by a multiple of 60,  *)
(* so every interpolated value of a run of up to four missing samples is a *)
(* whole number and the divisions below are exact; the arithmetic is that  *)
(* of the rationals, which the double arithmetic of the source follows to  *)
(* within rounding in the last place.                                      *)

Arr(items) == [array |-> TRUE, items |-> items]
NotArray == [array |-> FALSE, items |-> <<>>]

Sample(temp, rh, wind, timestamp) ==
    [temp |-> temp, rh |-> rh, wind |-> wind, timestamp |-> timestamp]

\* data[i][field] === null || data[i][field] === undefined || !isFinite(Number(data[i][field]))
Missing(x) == x.t \in {"null", "undefined"} \/ ~isFinite(Number(x))

\* PrevIdx looking for a sample that is valid in both fields
PrevIdx_BothFields(data, field, i) ==
    LET valid == {j \in 1..(i - 1) : ~Missing(data[j].temp) /\ ~Missing(data[j].rh)}
    IN  IF valid = {} THEN 0 ELSE CHOOSE j \in valid : \A k \in valid : k <= j

\* the index the first while loop stops at: the nearest j < i whose value is
\* valid, 0 (the source's -1) when there is none
PrevIdx(data, field, i) ==
    LET valid == {j \in 1..(i - 1) : ~Missing(data[j][field])}
    IN  IF valid = {} THEN 0 ELSE CHOOSE j \in valid : \A k \in valid : k <= j

\* the index the second while loop stops at: the nearest j > i whose value is
\* valid, Len(data) + 1 (the source's data.length) when there is none
NextIdx(data, field, i) ==
    LET valid == {j \in (i + 1)..Len(data) : ~Missing(data[j][field])}
    IN  IF valid = {} THEN Len(data) + 1 ELSE CHOOSE j \in valid : \A k \in valid : j <= k

\* interpolateField with the previous index searched among the next indices
\* only: an interior gap copies the next valid value
interpolateStep_CopyNext(data, field, i) ==
    IF ~Missing(data[i][field]) THEN data
    ELSE LET prevIdx == PrevIdx(data, field, i)
             nextIdx == NextIdx(data, field, i)
         IN  IF nextIdx <= Len(data)
             THEN [data EXCEPT ![i][field] = data[nextIdx][field]]
             ELSE IF prevIdx >= 1
             THEN [data EXCEPT ![i][field] = data[prevIdx][field]]
             ELSE data

\* interpolateField with the end of a series extrapolated along the last slope
interpolateStep_Extrapolate(data, field, i) ==
    IF ~Missing(data[i][field]) THEN data
    ELSE LET prevIdx == PrevIdx(data, field, i)
             nextIdx == NextIdx(data, field, i)
         IN  IF prevIdx >= 1 /\ nextIdx <= Len(data)
             THEN LET a == data[prevIdx][field].v
                      b == data[nextIdx][field].v
                  IN  [data EXCEPT ![i][field] =
                          Fin(a + ((i - prevIdx) * (b - a)) \div (nextIdx - prevIdx))]
             ELSE IF prevIdx >= 2
             THEN [data EXCEPT ![i][field] =
                      Fin(2 * data[prevIdx][field].v - data[prevIdx - 1][field].v)]
             ELSE IF prevIdx >= 1
             THEN [data EXCEPT ![i][field] = data[prevIdx][field]]
             ELSE IF nextIdx <= Len(data)
             THEN [data EXCEPT ![i][field] = data[nextIdx][field]]
             ELSE data

\* one iteration of interpolateField's for loop, at index i of data (which
\* holds the values already filled at the indices before i)
interpolateStep(data, field, i) ==
    IF ~Missing(data[i][field]) THEN data
    ELSE LET prevIdx == PrevIdx(data, field, i)
             nextIdx == NextIdx(data, field, i)
         IN  IF prevIdx >= 1 /\ nextIdx <= Len(data)
             THEN LET a == data[prevIdx][field].v
                      b == data[nextIdx][field].v
                  IN  [data EXCEPT ![i][field] =
                          Fin(a + ((i - prevIdx) * (b - a)) \div (nextIdx - prevIdx))]
             ELSE IF prevIdx >= 1
             THEN [data EXCEPT ![i][field] = data[prevIdx][field]]
             ELSE IF nextIdx <= Len(data)
             THEN [data EXCEPT ![i][field] = data[nextIdx][field]]
             ELSE data

\* the for loop of interpolateField from index i on
RECURSIVE interpolateFrom(_, _, _)
interpolateFrom(data, field, i) ==
    IF i > Len(data) THEN data
    ELSE interpolateFrom(interpolateStep(data, field, i), field, i + 1)

interpolateField(data, field) == interpolateFrom(data, field, 1)

\* interpolateWeatherData with the humidity pass run on the temperature field
interpolateWeatherData_TempTwice(weatherData) ==
    IF ~weatherData.array \/ Len(weatherData.items) = 0 THEN weatherData
    ELSE Arr(interpolateField(interpolateField(weatherData.items, "temp"), "temp"))

interpolateWeatherData(weatherData) ==
    IF ~weatherData.array \/ Len(weatherData.items) = 0 THEN weatherData
    ELSE Arr(interpolateField(interpolateField(weatherData.items, "temp"), "rh"))

MaxSamples == 4

\* values of the field a caller keeps fixed, and of the other field
HeldValues == {Fin(60), Fin(120), Null}
OtherValues == {Fin(30), Undef}

\* the series whose field f has the values of column and whose other field
\* has the values of other
SeriesOf(f, column, other) ==
    [i \in 1..Len(column) |->
        IF f = "temp" THEN Sample(column[i], other[i], Undef, Undef)
        ELSE Sample(other[i], column[i], Undef, Undef)]

InitInterp ==
    /\ impl = "v110"
    /\ \E n \in 0..MaxSamples :
          held \in {<<f, column>> : f \in {"temp", "rh"}, column \in [1..n -> HeldValues]}
    /\ cur = NoCall
    /\ prev = NoCall
    /\ RunIdle

\* interpolateWeatherData(series) for the held column of one field and drawn
\* values of the other field; a caller makes two calls and compares them, the
\* first with the other field present in every sample
CallInterpolateWeatherData ==
    \E other \in [1..Len(held[2]) -> OtherValues] :
        LET weatherData == Arr(SeriesOf(held[1], held[2], other))
        IN  /\ prev = NoCall
            /\ cur = NoCall => \A i \in 1..Len(held[2]) : other[i] = Fin(30)
            /\ prev' = cur
            /\ cur' = [fn |-> "interpolateWeatherData", args |-> <<weatherData>>,
                       ret |-> interpolateWeatherData(weatherData)]
            /\ UNCHANGED <<impl, held, runVars, trendVars>>

SpecInterp == InitInterp /\ [][CallInterpolateWeatherData]_vars

---------------------------------------------------------------------------
(* Properties of interpolateWeatherData *)

InterpCall(c) == c.fn = "interpolateWeatherData"

\* the series passed to and returned by a recorded call
InputOf(c) == c.args[1].items
OutputOf(c) == c.ret.items

Fields == {"temp", "rh"}

\* p < n are valid in field f of series in and every index between them is missing
GapBetween(in, f, p, n) ==
    /\ p < n - 1
    /\ ~Missing(in[p][f]) /\ ~Missing(in[n][f])
    /\ \A j \in (p + 1)..(n - 1) : Missing(in[j][f])

C15_EdgesCopyNearestValid ==
    InterpCall(cur) =>
        LET in == InputOf(cur)
            out == OutputOf(cur)
        IN  \A f \in Fields : \A k \in 1..Len(in) :
                ~Missing(in[k][f]) =>
                   /\ (\A j \in 1..(k - 1) : Missing(in[j][f])) =>
                         \A i \in 1..(k - 1) : out[i][f] = in[k][f]
                   /\ (\A j \in (k + 1)..Len(in) : Missing(in[j][f])) =>
                         \A i \in (k + 1)..Len(in) : out[i][f] = in[k][f]

\* a humidity column missing at both ends: the ends take 60 and 120
C15_Witness ==
    /\ InterpCall(cur)
    /\ held = <<"rh", <<Null, Fin(60), Fin(120), Null>> >>
    /\ OutputOf(cur)[1].rh = Fin(60)
    /\ OutputOf(cur)[4].rh = Fin(120)

\* C16: interpolateWeatherData raises no error for a series; an empty series
\* yields an empty series; a field missing in every sample is left as it was in
\* every sample, and the other field, when it has a valid value, then has no
\* missing value left.
C16_NoErrorEmptyAndAllMissing ==
    InterpCall(cur) =>
        LET in == InputOf(cur)
            out == OutputOf(cur)
        IN  /\ cur.ret # TypeError
            /\ cur.ret.array
            /\ Len(in) = 0 => out = <<>>
            /\ \A f \in Fields :
                  (\A j \in 1..Len(in) : Missing(in[j][f])) =>
                     /\ \A i \in 1..Len(in) : out[i][f] = in[i][f]
                     /\ \A g \in Fields \ {f} :
                           (\E j \in 1..Len(in) : ~Missing(in[j][g])) =>
                              \A i \in 1..Len(in) : ~Missing(out[i][g])

\* every temperature undefined while the humidity column has a gap that is filled
C16_Witness ==
    /\ InterpCall(cur)
    /\ held = <<"rh", <<Fin(60), Null, Fin(120)>> >>
    /\ \A i \in 1..3 : InputOf(cur)[i].temp = Undef /\ OutputOf(cur)[i].temp = Undef
    /\ OutputOf(cur)[2].rh = Fin(90)

\* C17: two series of equal length that agree in one field at every index have
\* outputs that agree in that field at every index, whatever the other field's
\* values are (for temp and for rh alike).
C17_FieldsIndependent ==
    (InterpCall(prev) /\ InterpCall(cur)) =>
        LET f == held[1]
        IN  /\ \A i \in 1..Len(held[2]) :
                  InputOf(prev)[i][f] = held[2][i] /\ InputOf(cur)[i][f] = held[2][i]
            /\ Len(OutputOf(prev)) = Len(OutputOf(cur))
            /\ \A i \in 1..Len(held[2]) : OutputOf(prev)[i][f] = OutputOf(cur)[i][f]

\* the same temperature column with a gap, once with every humidity present
\* and once with the first humidity missing
C17_Witness ==
    /\ InterpCall(prev) /\ InterpCall(cur)
    /\ held = <<"temp", <<Fin(60), Null, Fin(120)>> >>
    /\ \A i \in 1..3 : InputOf(prev)[i].rh = Fin(30)
    /\ InputOf(cur)[1].rh = Undef
    /\ OutputOf(prev)[2].temp = Fin(90)
    /\ OutputOf(cur)[2].temp = Fin(90)

---------------------------------------------------------------------------
(* Trend predictor (version 1.1.0)                                         *)
(*                                                                         *)
(* args = [params, options].  params.isObject is the outcome of the test   *)
(* params && typeof params === 'object'.  A wind of 15 or 30 mph with      *)
(* timeLag 10 gives a whole effective time-lag (9 and 8 hours).            *)

Params(isObject, currentMoisture, historicalWeather, predictedWeather, timeLag) ==
    [isObject |-> isObject, currentMoisture |-> currentMoisture,
     historicalWeather |-> historicalWeather, predictedWeather |-> predictedWeather,
     timeLag |-> timeLag]

\* resolution is Undef or a string; interpolateMissing is Undef or the
\* boolean false ("false"); criticalThreshold is Undef or a number
Options(resolution, interpolateMissing, criticalThreshold) ==
    [resolution |-> resolution, interpolateMissing |-> interpolateMissing,
     criticalThreshold |-> criticalThreshold]

\* the validation of params accepting only a currentMoisture above 0
rejectsParams_ZeroExcluded(params) ==
    \/ ~params.isObject
    \/ LET currentMoisture == Number(params.currentMoisture)
       IN  ~isFinite(currentMoisture) \/ currentMoisture.v <= 0 \/ currentMoisture.v > 10000
    \/ ~params.historicalWeather.array \/ Len(params.historicalWeather.items) = 0
    \/ ~params.predictedWeather.array \/ Len(params.predictedWeather.items) = 0
    \/ LET timeLag == Number(params.timeLag)
       IN  ~isFinite(timeLag) \/ timeLag.v <= 0

\* the validation at the head of predictDryingTrend: TRUE when it throws
rejectsParams(params) ==
    \/ ~params.isObject
    \/ LET currentMoisture == Number(params.currentMoisture)
       IN  ~isFinite(currentMoisture) \/ currentMoisture.v < 0 \/ currentMoisture.v > 10000
    \/ ~params.historicalWeather.array \/ Len(params.historicalWeather.items) = 0
    \/ ~params.predictedWeather.array \/ Len(params.predictedWeather.items) = 0
    \/ LET timeLag == Number(params.timeLag)
       IN  ~isFinite(timeLag) \/ timeLag.v <= 0

\* options.resolution || 'daily'
resolutionOf(options) == OrDefault(options.resolution, Str("daily"))

\* options.interpolateMissing !== false
interpolateMissingOf(options) == options.interpolateMissing # Str("false")

\* options.criticalThreshold || 6, in hundredths of a percent
criticalThresholdOf(options) == OrDefault(options.criticalThreshold, Fin(600))

\* the wind adjustment without the cap of 30 mph
effectiveTimeLag_Uncapped(timeLag, wind) ==
    IF wind # Undef /\ ((isFinite(wind) /\ wind.v > 0) \/ wind = PosInf)
    THEN LET w == IF wind = PosInf THEN 30 ELSE wind.v
         IN  Fin((timeLag.v * (150 - w)) \div 150)
    ELSE timeLag

\* timeLag * (1 - (Math.min(wind, 30) / 30) * 0.2) when wind is defined and > 0,
\* timeLag otherwise; whole hours for the winds and time-lags drawn
effectiveTimeLag(timeLag, wind) ==
    IF wind # Undef /\ ((isFinite(wind) /\ wind.v > 0) \/ wind = PosInf)
    THEN LET w == IF wind = PosInf THEN 30 ELSE Min2(wind.v, 30)
         IN  Fin((timeLag.v * (150 - w)) \div 150)
    ELSE timeLag

TrendEntry(period, temp, rh, wind, emc, m, type) ==
    [period |-> period, temp |-> temp, rh |-> rh, wind |-> wind, emc |-> emc,
     moisture |-> m, type |-> type]

\* `Historical Day ${index + 1}` and `Forecast Day ${index + 1}` (index is 1-based here)
TrendLabel(type, i) ==
    Str((IF type = "historical" THEN "Historical Day " ELSE "Forecast Day ") \o ToString(i))

\* what both forEach callbacks do with one entry: the throw for a non-finite
\* temp or rh, or the stepped moisture and the entry pushed
trendEntry(entry, i, m, timeLag, resolution, type) ==
    LET temp == Number(entry.temp)
        rh == Number(entry.rh)
    IN  IF ~isFinite(temp) \/ ~isFinite(rh) THEN [thrown |-> TRUE, moisture |-> m, rec |-> Undef]
        ELSE LET emc == computeEMC_v110(temp, rh)
                 hours == IF resolution = Str("hourly") THEN Fin(1) ELSE Fin(24)
                 next == stepMoisture_v110(m, emc, hours, effectiveTimeLag(timeLag, entry.wind))
             IN  [thrown |-> FALSE, moisture |-> next,
                  rec |-> TrendEntry(OrDefault(entry.timestamp, TrendLabel(type, i)),
                                     temp, rh, entry.wind, emc, next, type)]

\* the minimum taken to be the moisture of the last entry
MinMoisture_Last(rs) == rs[Len(rs)].moisture.v

\* Math.min(...rs.map(r => r.moisture)) and Math.max(...) for a non-empty rs
MinMoisture(rs) == CHOOSE m \in {rs[k].moisture.v : k \in 1..Len(rs)} :
                       \A k \in 1..Len(rs) : m <= rs[k].moisture.v
MaxMoisture(rs) == CHOOSE m \in {rs[k].moisture.v : k \in 1..Len(rs)} :
                       \A k \in 1..Len(rs) : m >= rs[k].moisture.v

MaxTrend == 2

\* samples a caller supplies: hot and dry, cool and humid, hot and dry with
\* wind and a timestamp, and one whose temperature is missing
WeatherSamples ==
    { Sample(Fin(96), Fin(15), Undef, Undef),
      Sample(Fin(60), Fin(81), Undef, Undef),
      Sample(Fin(96), Fin(15), Fin(15), Str("Mon")),
      Sample(Undef, Fin(15), Undef, Undef) }

\* non-empty series of at most MaxTrend samples
WeatherSeries == {Arr(q) : q \in SeqsUpTo(WeatherSamples, MaxTrend) \ {<<>>}}

TrendOptions ==
    { Options(Undef, Undef, Undef),
      Options(Undef, Undef, Fin(1000)),
      Options(Undef, Undef, Fin(0)),
      Options(Str("hourly"), Str("false"), Undef) }

\* calls that exercise the validation: every kind of currentMoisture, timeLag
\* and series, with the default options
ValidationCalls ==
    { [params |-> Params(TRUE, cm, hw, pw, tl), options |-> Options(Undef, Undef, Undef)] :
        cm \in {Fin(-500), Fin(0), Fin(1200), Fin(10000), Fin(15000), NaN, PosInf},
        hw \in {NotArray, Arr(<<>>), Arr(<<Sample(Fin(96), Fin(15), Undef, Undef)>>)},
        pw \in {NotArray, Arr(<<>>), Arr(<<Sample(Fin(96), Fin(15), Undef, Undef)>>)},
        tl \in {Fin(-10), Fin(0), Fin(10), NaN, PosInf} }
    \cup { [params |-> Params(FALSE, Undef, NotArray, NotArray, Undef),
            options |-> Options(Undef, Undef, Undef)] }

\* calls that pass the validation, over every pair of series and every option set
FoldCalls ==
    { [params |-> Params(TRUE, cm, hw, pw, Fin(10)), options |-> o] :
        cm \in {Fin(0), Fin(1200), Fin(1204)}, hw \in WeatherSeries, pw \in WeatherSeries,
        o \in TrendOptions }

InitTrend ==
    /\ impl = "v110"
    /\ args \in ValidationCalls \cup FoldCalls
    /\ pc = "call"
    /\ index = 1
    /\ current1hr = Undef
    /\ current10hr = Undef
    /\ dailyResults = <<>>
    /\ firstCritical1HrDay = Null
    /\ firstCritical10HrDay = Null
    /\ result = Undef
    /\ TrendIdle
    /\ held = <<>>
    /\ cur = NoCall
    /\ prev = NoCall

trendFrame == <<impl, args, current1hr, current10hr, dailyResults, firstCritical1HrDay,
                firstCritical10HrDay, held, cur, prev>>

\* predictDryingTrend up to the first loop: validation, options, interpolation
predictDryingTrendEnter ==
    /\ pc = "call"
    /\ IF rejectsParams(args.params)
       THEN /\ pc' = "thrown"
            /\ result' = TypeError
            /\ UNCHANGED <<index, trendVars>>
       ELSE /\ historical' = IF interpolateMissingOf(args.options)
                             THEN interpolateWeatherData(args.params.historicalWeather).items
                             ELSE args.params.historicalWeather.items
            /\ predicted' = IF interpolateMissingOf(args.options)
                            THEN interpolateWeatherData(args.params.predictedWeather).items
                            ELSE args.params.predictedWeather.items
            /\ moisture' = Number(args.params.currentMoisture)
            /\ historicalResults' = <<>>
            /\ index' = 1
            /\ pc' = "historical"
            /\ UNCHANGED <<result, forecastResults, criticalTime>>
    /\ UNCHANGED trendFrame

\* one callback of historical.forEach
historicalEntry ==
    /\ pc = "historical"
    /\ index <= Len(historical)
    /\ LET o == trendEntry(historical[index], index, moisture, Number(args.params.timeLag),
                           resolutionOf(args.options), "historical")
       IN  IF o.thrown
           THEN /\ pc' = "thrown"
                /\ result' = TypeError
                /\ UNCHANGED <<index, moisture, historicalResults>>
           ELSE /\ moisture' = o.moisture
                /\ historicalResults' = Append(historicalResults, o.rec)
                /\ index' = index + 1
                /\ UNCHANGED <<pc, result>>
    /\ UNCHANGED <<historical, predicted, forecastResults, criticalTime>>
    /\ UNCHANGED trendFrame

\* the step between the loops starting the forecast again from currentMoisture
forecastStart_ResetMoisture ==
    /\ pc = "historical"
    /\ index > Len(historical)
    /\ forecastResults' = <<>>
    /\ criticalTime' = Null
    /\ index' = 1
    /\ pc' = "forecast"
    /\ moisture' = Number(args.params.currentMoisture)
    /\ UNCHANGED <<result, historical, predicted, historicalResults>>
    /\ UNCHANGED trendFrame

\* between the loops: forecastResults and criticalTime are initialised
forecastStart ==
    /\ pc = "historical"
    /\ index > Len(historical)
    /\ forecastResults' = <<>>
    /\ criticalTime' = Null
    /\ index' = 1
    /\ pc' = "forecast"
    /\ UNCHANGED <<result, moisture, historical, predicted, historicalResults>>
    /\ UNCHANGED trendFrame

\* one callback of predicted.forEach
predictedEntry ==
    /\ pc = "forecast"
    /\ index <= Len(predicted)
    /\ LET o == trendEntry(predicted[index], index, moisture, Number(args.params.timeLag),
                           resolutionOf(args.options), "forecast")
       IN  IF o.thrown
           THEN /\ pc' = "thrown"
                /\ result' = TypeError
                /\ UNCHANGED <<index, moisture, forecastResults, criticalTime>>
           ELSE /\ moisture' = o.moisture
                /\ criticalTime' = IF criticalTime = Null
                                      /\ o.moisture.v <= criticalThresholdOf(args.options).v
                                   THEN o.rec.period ELSE criticalTime
                /\ forecastResults' = Append(forecastResults, o.rec)
                /\ index' = index + 1
                /\ UNCHANGED <<pc, result>>
    /\ UNCHANGED <<historical, predicted, historicalResults>>
    /\ UNCHANGED trendFrame

\* after the loops: the returned object
predictDryingTrendReturn ==
    /\ pc = "forecast"
    /\ index > Len(predicted)
    /\ LET currentMoisture == Number(args.params.currentMoisture)
           allResults == historicalResults \o forecastResults
       IN  result' =
             [metadata |-> [initialMoisture |-> currentMoisture,
                            timeLag |-> Number(args.params.timeLag),
                            resolution |-> resolutionOf(args.options),
                            criticalThreshold |-> criticalThresholdOf(args.options),
                            historicalPeriods |-> Len(historical),
                            forecastPeriods |-> Len(predicted)],
              trend |-> allResults,
              summary |-> [startingMoisture |-> currentMoisture,
                           endingMoisture |-> moisture,
                           moistureChange |->
                               Fin(10 * RoundHalfUp(moisture.v - currentMoisture.v, 10)),
                           criticalTime |-> criticalTime,
                           belowCritical |-> moisture.v <= criticalThresholdOf(args.options).v,
                           minMoisture |-> Fin(MinMoisture(allResults)),
                           maxMoisture |-> Fin(MaxMoisture(allResults))]]
    /\ pc' = "returned"
    /\ UNCHANGED <<index, trendVars>>
    /\ UNCHANGED trendFrame

NextTrend ==
    \/ predictDryingTrendEnter
    \/ historicalEntry
    \/ forecastStart
    \/ predictedEntry
    \/ predictDryingTrendReturn

SpecTrend == InitTrend /\ [][NextTrend]_vars

---------------------------------------------------------------------------
(* Properties of predictDryingTrend *)

\* the threshold a caller asked for: the option when present, 6 otherwise
RequestedThreshold ==
    IF args.options.criticalThreshold = Undef THEN 600 ELSE args.options.criticalThreshold.v

\* indices of the returned trend whose moisture is at or below the threshold
AtOrBelow == {k \in 1..Len(result.trend) : result.trend[k].moisture.v <= RequestedThreshold}

\* C18: summary.criticalTime is the label of the first sample of the trend
\* (historical samples, then forecast samples) whose moisture is <= the
\* critical threshold, historical or forecast; it is null exactly when no
\* sample of the trend is <= the threshold.  (Stated for calls whose threshold
\* option is absent or not 0.)
C18_CriticalTimeIsFirstCrossing ==
    (pc = "returned" /\ args.options.criticalThreshold # Fin(0)) =>
        IF AtOrBelow = {} THEN result.summary.criticalTime = Null
        ELSE \E k \in AtOrBelow :
                /\ \A j \in AtOrBelow : k <= j
                /\ result.summary.criticalTime = result.trend[k].period

\* C19: when some sample ends with moisture <= the critical threshold the
\* summary has belowCritical = true and a non-null criticalTime; and a non-null
\* criticalTime is the label of a forecast sample at or below the threshold
\* with no earlier forecast sample at or below it.  (Stated for calls whose
\* threshold option is absent or not 0.)
C19_CrossingReportedAndNotEarly ==
    (pc = "returned" /\ args.options.criticalThreshold # Fin(0)) =>
        /\ AtOrBelow # {} =>
              /\ result.summary.belowCritical = TRUE
              /\ result.summary.criticalTime # Null
        /\ result.summary.criticalTime # Null =>
              \E k \in AtOrBelow :
                 /\ result.trend[k].type = "forecast"
                 /\ result.trend[k].period = result.summary.criticalTime
                 /\ \A j \in AtOrBelow : result.trend[j].type = "forecast" => k <= j

\* the input is one the claim says is rejected
RejectedInput ==
    LET p == args.params
    IN  \/ ~isFinite(p.currentMoisture) \/ p.currentMoisture.v < 0 \/ p.currentMoisture.v > 10000
        \/ ~isFinite(p.timeLag) \/ p.timeLag.v <= 0
        \/ ~p.historicalWeather.array \/ p.historicalWeather.items = <<>>
        \/ ~p.predictedWeather.array \/ p.predictedWeather.items = <<>>

\* every sample of both series has a finite temp and rh
FiniteSamples ==
    LET p == args.params
    IN  \A q \in {p.historicalWeather.items, p.predictedWeather.items} :
           \A k \in 1..Len(q) : isFinite(q[k].temp) /\ isFinite(q[k].rh)

\* C20: predictDryingTrend raises an error and returns no result when
\* currentMoisture is non-finite, below 0 or above 100, when timeLag is
\* non-finite, zero or negative, or when either series is empty or not a
\* sequence; a call with currentMoisture 0 or 100 and otherwise valid input
\* returns a result.
C20_InvalidInputRejected ==
    (args.params.isObject /\ pc # "call") =>
        /\ RejectedInput =>
              /\ pc = "thrown" /\ result = TypeError
              /\ historicalResults = <<>> /\ forecastResults = <<>>
        /\ ( /\ ~RejectedInput /\ FiniteSamples /\ Terminated
             /\ args.params.currentMoisture \in {Fin(0), Fin(10000)} ) =>
              /\ pc = "returned"
              /\ result.summary.startingMoisture = args.params.currentMoisture

\* a call rejected for its time-lag of 0 alone
C20_Witness ==
    /\ pc = "thrown"
    /\ args.params.currentMoisture = Fin(10000)
    /\ args.params.timeLag = Fin(0)
    /\ args.params.historicalWeather.array /\ Len(args.params.historicalWeather.items) = 1
    /\ args.params.predictedWeather.array /\ Len(args.params.predictedWeather.items) = 1

\* C21: predictDryingTrend uses the caller's options.criticalThreshold whenever
\* the option is present, 0 included, and 6 only when it is absent:
\* metadata.criticalThreshold is that value, belowCritical compares the
\* ending moisture with it, and a recorded criticalTime labels a forecast
\* sample at or below it.
C21_SuppliedThresholdUsed ==
    pc = "returned" =>
        /\ result.metadata.criticalThreshold = Fin(RequestedThreshold)
        /\ result.summary.belowCritical
              = (result.summary.endingMoisture.v <= RequestedThreshold)
        /\ result.summary.criticalTime # Null =>
              \E k \in AtOrBelow :
                 /\ result.trend[k].type = "forecast"
                 /\ result.trend[k].period = result.summary.criticalTime

\* the sample behind entry k of the returned trend, as the caller supplied it
SuppliedSample(k) ==
    LET hw == args.params.historicalWeather.items
        pw == args.params.predictedWeather.items
    IN  IF k <= Len(hw) THEN hw[k] ELSE pw[k - Len(hw)]

\* the type and default label of entry k of the returned trend
ExpectedType(k) ==
    IF k <= Len(args.params.historicalWeather.items) THEN "historical" ELSE "forecast"
ExpectedPeriod(k) ==
    LET nh == Len(args.params.historicalWeather.items)
    IN  IF k <= nh THEN TrendLabel("historical", k) ELSE TrendLabel("forecast", k - nh)

\* the moisture entering entry k of the returned trend
EnteringTrend(k) ==
    IF k = 1 THEN Number(args.params.currentMoisture) ELSE result.trend[k - 1].moisture

\* C22: for valid input the trend has |historicalWeather| + |predictedWeather|
\* entries; the first |historicalWeather| are the historical samples in
\* their order, tagged 'historical', the rest the predicted samples in their
\* order, tagged 'forecast'; moisture is threaded from currentMoisture
\* through the historical and then the forecast samples, each entry's
\* moisture being the stepper's output for the previous entry's moisture.
C22_TrendIsConcatenatedFold ==
    pc = "returned" =>
        LET trend == result.trend
            hours == IF args.options.resolution = Str("hourly") THEN Fin(1) ELSE Fin(24)
        IN  /\ Len(trend) = Len(args.params.historicalWeather.items)
                              + Len(args.params.predictedWeather.items)
            /\ \A k \in 1..Len(trend) :
                  LET e == trend[k]
                      d == SuppliedSample(k)
                  IN  /\ e.type = ExpectedType(k)
                      /\ e.period = (IF d.timestamp = Undef THEN ExpectedPeriod(k)
                                     ELSE d.timestamp)
                      /\ e.wind = d.wind
                      /\ isFinite(d.temp) => e.temp = d.temp
                      /\ isFinite(d.rh) => e.rh = d.rh
                      /\ e.emc = computeEMC_v110(e.temp, e.rh)
                      /\ e.moisture = stepMoisture_v110(EnteringTrend(k), e.emc, hours,
                             effectiveTimeLag(Number(args.params.timeLag), e.wind))

\* two historical and two forecast samples, the weather changing at each
C22_Witness ==
    /\ pc = "returned"
    /\ args.params.currentMoisture = Fin(1200)
    /\ args.params.historicalWeather.items
          = <<Sample(Fin(96), Fin(15), Undef, Undef), Sample(Fin(60), Fin(81), Undef, Undef)>>
    /\ args.params.predictedWeather.items
          = <<Sample(Fin(96), Fin(15), Fin(15), Str("Mon")), Sample(Fin(60), Fin(81), Undef, Undef)>>
    /\ Len(result.trend) = 4
    /\ result.trend[2].type = "historical" /\ result.trend[3].type = "forecast"
    /\ result.trend[3].period = Str("Mon")
    /\ result.trend[2].moisture # result.trend[3].moisture

\* the moisture values of the returned trend, in hundredths of a percent
TrendMoistures == {result.trend[k].moisture.v : k \in 1..Len(result.trend)}

\* C23: in the summary, startingMoisture equals currentMoisture,
\* endingMoisture equals the moisture of the last trend entry, minMoisture
\* and maxMoisture are the minimum and the maximum of the moistures of all
\* trend entries (so minMoisture <= endingMoisture <= maxMoisture), and
\* moistureChange is endingMoisture - startingMoisture rounded to one decimal.
C23_SummaryMatchesTrend ==
    pc = "returned" =>
        LET s == result.summary
            last == result.trend[Len(result.trend)]
        IN  /\ s.startingMoisture = Number(args.params.currentMoisture)
            /\ s.endingMoisture = last.moisture
            /\ s.minMoisture.v \in TrendMoistures
            /\ s.maxMoisture.v \in TrendMoistures
            /\ \A m \in TrendMoistures : s.minMoisture.v <= m /\ m <= s.maxMoisture.v
            /\ s.minMoisture.v <= s.endingMoisture.v
            /\ s.endingMoisture.v <= s.maxMoisture.v
            /\ isFinite(s.moistureChange)
            /\ s.moistureChange.v % 10 = 0
            /\ Abs(s.moistureChange.v - (s.endingMoisture.v - s.startingMoisture.v)) <= 5

\* a trend of three entries from 12.04 % whose minimum is the middle entry;
\* the change reported differs from the unrounded difference
C23_Witness ==
    /\ pc = "returned"
    /\ args.params.currentMoisture = Fin(1204)
    /\ Len(result.trend) = 3
    /\ result.summary.minMoisture.v < result.trend[1].moisture.v
    /\ result.summary.minMoisture.v < result.summary.endingMoisture.v
    /\ result.summary.moistureChange.v
          # result.summary.endingMoisture.v - result.summary.startingMoisture.v

---------------------------------------------------------------------------
(* Wind adjustment of the time-lag *)

\* time-lags and winds for which timeLag * (1 - 0.2 * min(wind, 30) / 30) is
\* a whole number of hours; a wind may be absent, null or not a number
WindTimeLags == {Fin(10), Fin(100), Fin(150), Fin(1000)}
Winds == {Undef, Null, NaN, NegInf, PosInf,
          Fin(-15), Fin(0), Fin(15), Fin(30), Fin(45), Fin(60)}

InitWind ==
    /\ impl = "v110"
    /\ held \in {<<timeLag>> : timeLag \in WindTimeLags}
    /\ cur = NoCall
    /\ prev = NoCall
    /\ RunIdle

\* the effective time-lag of one sample, for the held timeLag and a drawn wind
CallEffectiveTimeLag ==
    \E wind \in Winds :
        /\ prev' = cur
        /\ cur' = [fn |-> "effectiveTimeLag", args |-> <<held[1], wind>>,
                   ret |-> effectiveTimeLag(held[1], wind)]
        /\ UNCHANGED <<impl, held, runVars, trendVars>>

SpecWind == InitWind /\ [][CallEffectiveTimeLag]_vars

\* the wind of call c is a number above 0
WindBlows(c) == (isFinite(c.args[2]) /\ c.args[2].v > 0) \/ c.args[2] = PosInf

\* the wind of call c as a number, for comparing two winds
WindOf(c) == IF c.args[2] = PosInf THEN 1000 ELSE c.args[2].v

---------------------------------------------------------------------------
(* Validation order, convergence and ordering of the fold *)

\* C25: when runModel or predictDryingTrend rejects its input because some
\* period or sample, at any index, has a missing or non-finite temp, rh or
\* hours, the error is raised before any computation: no period has been
\* evaluated (no computeEMC or stepMoisture call, no record pushed) when the
\* error is raised, and no partial results are returned.
C25_RejectedBeforeAnyEvaluation ==
    pc = "thrown" =>
        /\ result = TypeError
        /\ index = 1
        /\ dailyResults = <<>>
        /\ historicalResults = <<>>
        /\ forecastResults = <<>>

\* a fold under constant weather: the initial moisture, the emc, the step
\* length and the time-lag class are fixed, the moisture is carried
IterInitials == {Fin(500), Fin(804), Fin(1000), Fin(1200), Fin(2000)}
IterHours == {Fin(1), Fin(12), Fin(24)}
IterTimeLags == {Fin(1), Fin(10), Fin(100), Fin(1000)}

InitIterate ==
    /\ impl \in StepImpls
    /\ held \in {<<initial, emc, hours, timeLag>> :
                   initial \in IterInitials, emc \in StepEMCs,
                   hours \in IterHours, timeLag \in IterTimeLags}
    /\ cur = NoCall
    /\ prev = NoCall
    /\ RunIdle

\* current = stepMoisture(current, emc, hours, timeLag), as the loops of
\* runModel and predictDryingTrend do with the value the last call returned
IterateStepMoisture ==
    LET current == IF cur = NoCall THEN held[1] ELSE cur.ret
    IN  /\ prev' = cur
        /\ cur' = [fn |-> "stepMoisture", args |-> <<current, held[2], held[3], held[4]>>,
                   ret |-> stepMoistureOf(impl, current, held[2], held[3], held[4])]
        /\ UNCHANGED <<impl, held, runVars, trendVars>>

\* the loop keeps calling the stepper while periods remain
SpecIterate == InitIterate /\ [][IterateStepMoisture]_vars /\ WF_vars(IterateStepMoisture)

\* C26: iterating stepMoisture with a fixed emc, hours > 0 and timeLag > 0,
\* each returned value fed back as the next initial value, eventually brings
\* the moisture to within 0.1 of emc, for every time-lag class (1, 10, 100,
\* 1000) and step length; the sequence never stalls farther than 0.1 from emc.
C26_IterationReachesEquilibrium ==
    <>(cur.fn = "stepMoisture" /\ isFinite(cur.ret) /\ Abs(cur.ret.v - held[2].v) <= 10)

\* the EMC of period k of the returned records; the UMD version does not
\* store it in the record
PeriodEMC(k) ==
    LET r == result.dailyResults[k]
    IN  IF impl = "umd" THEN computeEMC_UMD(r.temp, r.rh) ELSE r.emc

\* the hours of period k as the version uses them
PeriodHours(k) ==
    IF impl = "umd" THEN result.dailyResults[k].hours
    ELSE Number(args.forecastEntries[k].hours)

\* both classes are drying in every period of a returned run
BothDrying ==
    /\ pc = "returned"
    /\ NumPeriods > 0
    /\ Number(args.initial10hr).v >= Number(args.initial1hr).v
    /\ \A k \in 1..NumPeriods :
          /\ PeriodHours(k).v >= 0
          /\ PeriodEMC(k).v <= Entering1Hr(k).v

\* C27: in runModel, if initial10hr >= initial1hr and every period has
\* hours >= 0 and an EMC <= the 1-hr moisture entering it, then in every
\* record moisture10Hr >= moisture1Hr >= that period's EMC.
C27_SlowClassNotDrierWhileDrying ==
    BothDrying =>
        \A k \in 1..NumPeriods :
            LET r == result.dailyResults[k]
            IN  /\ r.moisture10Hr.v >= r.moisture1Hr.v
                /\ r.moisture1Hr.v >= PeriodEMC(k).v

\* three drying periods of the main version, the 10-hr class strictly
\* wetter than the 1-hr class after each
C27_Witness ==
    /\ BothDrying
    /\ impl = "main"
    /\ NumPeriods = 3
    /\ \A k \in 1..3 : result.dailyResults[k].moisture10Hr.v
                          > result.dailyResults[k].moisture1Hr.v

\* a call of stepMoisture the claim covers: finite arguments, hours >= 0, timeLag > 0
ForwardStepCall(c) == ValidStepCall(c) /\ c.args[3].v >= 0

\* distance of the value call c returned from the emc it was given
DistanceFromEMC(c) == Abs(c.ret.v - c.args[2].v)

\* two calls that differ in hours only, the second at least as long
LongerStep ==
    /\ ForwardStepCall(prev) /\ ForwardStepCall(cur)
    /\ prev.args[4] = cur.args[4]
    /\ prev.args[3].v <= cur.args[3].v

\* C28 as stated: for every finite initial, finite emc, hours >= 0 and
\* timeLag > 0, min(initial, emc) <= stepMoisture(...) <= max(initial, emc),
\* and for a fixed initial, emc and timeLag a longer hours never yields a
\* result farther from emc.
C28_BetweenInitialAndEMCExactly ==
    /\ ForwardStepCall(cur) =>
          /\ isFinite(cur.ret)
          /\ Min2(cur.args[1].v, cur.args[2].v) <= cur.ret.v
          /\ cur.ret.v <= Max2(cur.args[1].v, cur.args[2].v)
    /\ LongerStep => DistanceFromEMC(cur) <= DistanceFromEMC(prev)

\* C28 amended: for moisture percentages initial and emc, hours >= 0 and
\* timeLag > 0, the value returned lies between min(initial, emc) and
\* max(initial, emc) each rounded to one decimal place, hence between
\* initial and emc themselves when both have at most one decimal; and a
\* longer hours never yields a result farther from emc.
C28_BetweenInitialAndEMCRounded ==
    /\ ForwardStepCall(cur) =>
          LET lo == Fin(Min2(cur.args[1].v, cur.args[2].v))
              hi == Fin(Max2(cur.args[1].v, cur.args[2].v))
          IN  /\ isFinite(cur.ret)
              /\ OneDecimal(lo).v <= cur.ret.v
              /\ cur.ret.v <= OneDecimal(hi).v
              /\ (lo.v % 10 = 0 /\ hi.v % 10 = 0) =>
                    (lo.v <= cur.ret.v /\ cur.ret.v <= hi.v)
    /\ LongerStep => DistanceFromEMC(cur) <= DistanceFromEMC(prev)

\* from 12 % toward 8 % on a 10-hour fuel: 11.6 % after 1 hour, 9.2 % after 12
C28_Witness ==
    /\ LongerStep
    /\ prev.args = <<Fin(1200), Fin(800), Fin(1), Fin(10)>> /\ prev.ret = Fin(1160)
    /\ cur.args = <<Fin(1200), Fin(800), Fin(12), Fin(10)>> /\ cur.ret = Fin(920)

\* the versions of runModel that keep the first-critical label in a variable
LatchVersion == impl \in {"main", "v110"}

\* a step of runModel leaves a first-critical label that is set as it is
LatchKept ==
    (LatchVersion /\ firstCritical1HrDay # Null)
        => firstCritical1HrDay' = firstCritical1HrDay

\* a returned run evaluated every period, and its summary holds the label
\* latched and the moistures after the last period
FoldedToTheEnd ==
    (LatchVersion /\ pc = "returned") =>
        LET rs == result.dailyResults
        IN  /\ Len(rs) = NumPeriods
            /\ result.summary.firstCritical1HrDay = firstCritical1HrDay
            /\ result.summary.final1Hr = rs[NumPeriods].moisture1Hr
            /\ result.summary.final10Hr = rs[NumPeriods].moisture10Hr
            /\ \A k \in 1..NumPeriods :
                  (rs[k].moisture1Hr.v <= 600 /\ \A j \in 1..(k - 1) : rs[j].moisture1Hr.v > 600)
                      => result.summary.firstCritical1HrDay = ExpectedLabel(k)

\* C29: in runModel the first-critical label is a latch: once set at the
\* first period whose 1-hr moisture is <= 6 no later period changes it, even
\* if the 1-hr moisture rises above 6 and drops to or below 6 again; setting
\* it does not stop the fold: every later period is evaluated and the
\* summary's final values are those after the last period.
C29_FirstCriticalIsLatch == [][LatchKept]_vars /\ []FoldedToTheEnd

\* critical in period 1, above 6 in period 2, critical again in period 3
\* under another label: the summary keeps the label of period 1
C29_Witness ==
    /\ LatchVersion
    /\ pc = "returned"
    /\ NumPeriods = 3
    /\ result.dailyResults[1].moisture1Hr.v <= 600
    /\ result.dailyResults[2].moisture1Hr.v > 600
    /\ result.dailyResults[3].moisture1Hr.v <= 600
    /\ ExpectedLabel(3) # ExpectedLabel(1)
    /\ result.summary.firstCritical1HrDay = ExpectedLabel(1)
    /\ result.summary.final1Hr = result.dailyResults[3].moisture1Hr

---------------------------------------------------------------------------
(* Effect of the interpolation on the caller's objects                     *)
(*                                                                         *)
(* A heap is a sequence of sample objects, an object's address its index.  *)
(* An array is a sequence of addresses (refs).  interpolateField assigns   *)
(* to data[i][field], that is to the object whose address is data[i].      *)

ArrOfRefs(refs) == [array |-> TRUE, refs |-> refs]
NotArrayOfRefs == [array |-> FALSE, refs |-> <<>>]

\* the samples an array of addresses denotes in a heap
Deref(heap, refs) == [i \in 1..Len(refs) |-> heap[refs[i]]]

\* the heap after interpolateField(data, 'temp') and interpolateField(data, 'rh')
\* for the array data of distinct addresses: each object of data receives the
\* filled values, every other object is left alone
interpolateFieldsOnHeap(heap, data) ==
    LET filled == interpolateField(interpolateField(Deref(heap, data), "temp"), "rh")
    IN  [a \in 1..Len(heap) |->
            IF \E i \in 1..Len(data) : data[i] = a
            THEN filled[CHOOSE i \in 1..Len(data) : data[i] = a]
            ELSE heap[a]]

\* interpolateWeatherData with const result = weatherData, no copies made
interpolateWeatherDataOnHeap_InPlace(heap, weatherData) ==
    IF ~weatherData.array \/ Len(weatherData.refs) = 0
    THEN [heap |-> heap, ret |-> weatherData]
    ELSE LET copies == weatherData.refs
         IN  [heap |-> interpolateFieldsOnHeap(heap, copies), ret |-> ArrOfRefs(copies)]

\* interpolateWeatherData on a heap: weatherData.map(d => ({ ...d })) allocates
\* one new object per element, holding the element's field values, and the two
\* passes of interpolateField assign to the new objects
interpolateWeatherDataOnHeap(heap, weatherData) ==
    IF ~weatherData.array \/ Len(weatherData.refs) = 0
    THEN [heap |-> heap, ret |-> weatherData]
    ELSE LET copies == [i \in 1..Len(weatherData.refs) |-> Len(heap) + i]
             copied == heap \o Deref(heap, weatherData.refs)
         IN  [heap |-> interpolateFieldsOnHeap(copied, copies), ret |-> ArrOfRefs(copies)]

\* the objects a caller holds: up to MaxSamples samples, a field present or missing
CallerSamples == {Sample(temp, rh, Undef, Undef) : temp \in HeldValues, rh \in OtherValues}

InitHeap ==
    /\ impl = "v110"
    /\ \E n \in 0..MaxSamples : held \in [1..n -> CallerSamples]
    /\ cur = NoCall
    /\ prev = NoCall
    /\ RunIdle

\* interpolateWeatherData(weatherData) for the array of all the caller's
\* objects, or for something that is not an array
CallInterpolateOnHeap ==
    \E weatherData \in {NotArrayOfRefs, ArrOfRefs([i \in 1..Len(held) |-> i])} :
        LET e == interpolateWeatherDataOnHeap(held, weatherData)
        IN  /\ cur = NoCall
            /\ cur' = [fn |-> "interpolateWeatherData", args |-> <<weatherData>>,
                       before |-> held, after |-> e.heap, ret |-> e.ret]
            /\ UNCHANGED <<impl, held, prev, runVars, trendVars>>

\* the interpolation at the head of predictDryingTrend, for the caller's
\* objects split into a non-empty historical and a non-empty predicted array
CallPredictDryingTrendInterpolation ==
    \E split \in 1..(Len(held) - 1), interpolateMissing \in {Undef, Str("false")} :
        LET historicalWeather == ArrOfRefs([i \in 1..split |-> i])
            predictedWeather == ArrOfRefs([i \in 1..(Len(held) - split) |-> split + i])
            options == Options(Undef, interpolateMissing, Undef)
            h == IF interpolateMissingOf(options)
                 THEN interpolateWeatherDataOnHeap(held, historicalWeather)
                 ELSE [heap |-> held, ret |-> historicalWeather]
            p == IF interpolateMissingOf(options)
                 THEN interpolateWeatherDataOnHeap(h.heap, predictedWeather)
                 ELSE [heap |-> h.heap, ret |-> predictedWeather]
        IN  /\ cur = NoCall
            /\ cur' = [fn |-> "predictDryingTrend",
                       args |-> <<historicalWeather, predictedWeather, interpolateMissing>>,
                       before |-> held, after |-> p.heap, ret |-> <<h.ret, p.ret>>]
            /\ UNCHANGED <<impl, held, prev, runVars, trendVars>>

NextHeap == CallInterpolateOnHeap \/ CallPredictDryingTrendInterpolation

SpecHeap == InitHeap /\ [][NextHeap]_vars

\* the arrays a recorded call returned or kept for its loops
ReturnedArrays(c) == IF c.fn = "predictDryingTrend" THEN {c.ret[1], c.ret[2]} ELSE {c.ret}

\* the arrays a recorded call was given
GivenArrays(c) == IF c.fn = "predictDryingTrend" THEN {c.args[1], c.args[2]} ELSE {c.args[1]}

\* C30: interpolateWeatherData leaves its argument unchanged: after the call
\* every sample object of the input holds the temp and rh it held before, the
\* missing ones included, and the filled-in values are in the objects of the
\* newly returned series only; so predictDryingTrend with interpolateMissing
\* = true does not modify the caller's historicalWeather or predictedWeather.
C30_ArgumentUnchanged ==
    cur.fn \in {"interpolateWeatherData", "predictDryingTrend"} =>
        /\ \A a \in 1..Len(cur.before) : cur.after[a] = cur.before[a]
        /\ \A given \in GivenArrays(cur) :
              \E returned \in ReturnedArrays(cur) :
                 \/ returned = given
                 \/ /\ \A i \in 1..Len(returned.refs) : returned.refs[i] > Len(cur.before)
                    /\ Deref(cur.after, returned.refs)
                          = interpolateWeatherData(Arr(Deref(cur.before, given.refs))).items

\* the caller's middle temperature is still null after the call, the
\* returned series has 90 in its place
C30_Witness ==
    /\ cur.fn = "interpolateWeatherData"
    /\ Len(cur.before) = 3
    /\ cur.before[1].temp = Fin(60) /\ cur.before[2].temp = Null /\ cur.before[3].temp = Fin(120)
    /\ cur.args[1].refs = <<1, 2, 3>>
    /\ cur.after[2].temp = Null
    /\ cur.after[cur.ret.refs[2]].temp = Fin(90)

\* predictDryingTrend interpolating both of the caller's series
C30_WitnessTrend ==
    /\ cur.fn = "predictDryingTrend"
    /\ cur.args[3] = Undef
    /\ Len(cur.before) = 4
    /\ cur.before[1].temp = Null /\ cur.before[2].temp = Fin(60)
    /\ cur.after[1].temp = Null
    /\ cur.after[cur.ret[1].refs[1]].temp = Fin(60)

====
